---- MODULE Spec2Model ----
(***************************************************************************)
(* Run supervisor of the G4sim web dashboard                               *)
(* (webapp/services/simulation.py, webapp/routers/run_api.py).             *)
(*                                                                         *)
(* The event loop is single threaded: every action below is the code that  *)
(* one coroutine runs between two suspension points (await), so an action  *)
(* is atomic and the interleavings are those of the suspension points.     *)
(***************************************************************************)
EXTENDS Integers, Sequences, FiniteSets, TLC

\* ----------------------------------------------------------------- bounds
MaxReq   == 2    \* POST /api/run requests that arrive
MaxLines == 2    \* lines one external process prints
MaxSub   == 1    \* /ws/log subscribers that attach
MaxClock == 2    \* seconds the wall clock can show
MaxDim   == 2    \* largest extent (half-size, radius) of a mesh
MaxSeg   == 4    \* largest ring resolution of a mesh besides the defaults
MaxVols  == 2    \* volumes of a geometry description
MaxPl    == 2    \* placements of one volume
MaxTurn  == 3    \* largest rotation angle of a placement, in quarter turns
MaxShift == 1    \* largest shift of a placement along an axis

Req  == 1..MaxReq
Sub  == 1..MaxSub
Dirs == 1..MaxClock

\* --------------------------------------------------------------- constants
NoRun    == 0    \* Python None in the slot current_process["proc"/"info"]
KillCode == -9   \* returncode of a process ended by SIGKILL
ExitCodes == {0, 1}   \* return codes of a process that ends by itself
Sentinel == [text |-> <<0, 0>>, sess |-> 0, pos |-> 0]   \* "__DONE__"

VARIABLES
  clock,      \* the last value datetime.now() returned (second granularity)
  spc,        \* spc[r]: position of start_run handler r
  stamp,      \* stamp[r]: local `stamp` of handler r (0: not taken yet)
  meta,       \* meta[r]: the dict `meta` built by handler r
  proc,       \* current_process["proc"]: request whose process it holds
  info,       \* current_process["info"]: request whose info dict it holds
  logs,       \* logs[r]: the list info["log_lines"] created by handler r
  pst,        \* pst[r]: state of the external process spawned by r
  rc,         \* rc[r]: proc.returncode (meaningful once pst[r] = "exited")
  sigkill,    \* sigkill[r]: SIGKILL was sent to the process
  mpc,        \* mpc[r]: position of the task _monitor_process of r
  nread,      \* nread[r]: lines the monitor has taken from the pipe
  disk,       \* disk[d]: the run directory RUNS_DIR / d
  stopResult, \* value stop_simulation() returned in the step just taken
              \* ("none" when that step was not a stop)
  sub,        \* sub[s]: locals of websocket_log handler s
  delivered,  \* delivered[s]: messages handed to ws.send_text by s
  finHist,    \* history: one entry per execution of lines 48-60 of the monitor
  readErr,    \* history: monitors whose readline() raised
  statusResp, \* <<value>> get_status() returned in the step just taken
              \* (<<>> when that step was not a status request)
  call,       \* the call of a geometry function being evaluated
  ret         \* <<value>> that call returned (<<>>: not returned yet)

vars == <<clock, spc, stamp, meta, proc, info, logs, pst, rc, sigkill,
          mpc, nread, disk, stopResult, sub, delivered, finHist, readErr,
          statusResp, call, ret>>

startVars == <<spc, stamp, meta>>
procVars  == <<pst, rc, sigkill>>
monVars   == <<mpc, nread>>
subVars   == <<sub, delivered>>
geoVars   == <<call, ret>>
supVars   == <<clock, startVars, proc, info, logs, procVars, monVars, disk,
               stopResult, subVars, finHist, readErr, statusResp>>

\* ------------------------------------------------------------ pure helpers
\* meta["status"] values: "running", "completed", f"error (code {c})"
Running   == [kind |-> "running",   code |-> 0]
Completed == [kind |-> "completed", code |-> 0]
ErrorStatus(c) == [kind |-> "error", code |-> c]

\* simulation.py:48-50
ClassifyAlwaysCompleted(c) == Completed
Classify(c) == IF c = 0 THEN Completed ELSE ErrorStatus(c)

\* The k-th line process r writes: bytes ending in a newline.
RawLine(r, k) == <<r, k, "\n">>
\* simulation.py:41  line.decode(errors="replace").rstrip()
Rstrip(line) == <<line[1], line[2]>>

\* The lines process r has written when it has written n of them, as text.
Emitted(r, n) == [k \in 1..n |-> Rstrip(RawLine(r, k))]

\* json.dumps(meta): the record as it is written to meta.json
MetaFile(r, st, m) == [run |-> r, started |-> st, status |-> m.status,
                       finished |-> m.finished]

EmptyDir == [exists |-> FALSE, macro |-> <<>>, meta |-> <<>>, log |-> <<>>]
NoMeta   == [status |-> [kind |-> "unset", code |-> 0], finished |-> 0]
NewSub   == [pc |-> "new", sent |-> 0, ref |-> NoRun, cur |-> 0, end |-> 0,
             att |-> NoRun]

NoCall   == [fn |-> "none"]

IsPrefix(s, t) == Len(s) <= Len(t) /\ \A i \in 1..Len(s) : s[i] = t[i]

InitSupervisor ==
  /\ clock = 1
  /\ spc = [r \in Req |-> "new"]
  /\ stamp = [r \in Req |-> 0]
  /\ meta = [r \in Req |-> NoMeta]
  /\ proc = NoRun
  /\ info = NoRun
  /\ logs = [r \in Req |-> <<>>]
  /\ pst = [r \in Req |-> "none"]
  /\ rc = [r \in Req |-> 0]
  /\ sigkill = [r \in Req |-> FALSE]
  /\ mpc = [r \in Req |-> "none"]
  /\ nread = [r \in Req |-> 0]
  /\ disk = [d \in Dirs |-> EmptyDir]
  /\ stopResult = "none"
  /\ sub = [s \in Sub |-> NewSub]
  /\ delivered = [s \in Sub |-> <<>>]
  /\ finHist = <<>>
  /\ readErr = {}
  /\ statusResp = <<>>

Init == InitSupervisor /\ call = NoCall /\ ret = <<>>

\* What every step of the supervisor and of a subscriber leaves alone: it
\* answers no status request, raises no read error and evaluates no geometry
\* function.
Aside == statusResp' = <<>> /\ UNCHANGED <<readErr, geoVars>>

\* ------------------------------------------------------------- wall clock
\* The clock is read in two places (run_api.py:41, simulation.py:51).  Time
\* passing is modelled at the reads: a read returns some `now` not before the
\* last value read, and `clock` keeps that value.
Times == clock..MaxClock

\* ------------------------------------------------- start_run (run_api.py)
\* run_api.py:21  the "is a run active" test
RunActiveNever == FALSE
RunActive == proc # NoRun

\* run_api.py:19-24: the handler starts, tests the slot and either answers
\* 409 or suspends in `await request.json()`.  Requests are numbered in the
\* order they arrive.
StartRunCheck(r) ==
  /\ spc[r] = "new"
  /\ \A q \in Req : q < r => spc[q] # "new"
  /\ spc' = [spc EXCEPT ![r] = IF RunActive THEN "conflict" ELSE "body"]
  /\ UNCHANGED <<clock, stamp, meta, proc, info, logs, procVars, monVars,
                 disk, subVars, finHist>>
  /\ stopResult' = "none"
  /\ Aside

\* run_api.py:25-78 and simulation.py:19-24: the body has arrived; take the
\* stamp, create the run directory, write run.mac, build meta (int(n_events)
\* raises on a non-integer), write meta.json and spawn the process
\* (create_subprocess_exec raises when the binary cannot be executed), then
\* suspend until the spawn is set up.
StartRunPrepare(r, now, nEventsOk, spawnOk) ==
  /\ spc[r] = "body"
  /\ clock' = now
  /\ LET d == now
         withMacro == [disk[d] EXCEPT !.exists = TRUE, !.macro = <<r>>]
         m == [status |-> Running, finished |-> 0]
         withMeta == [withMacro EXCEPT !.meta = <<MetaFile(r, d, m)>>]
     IN /\ stamp' = [stamp EXCEPT ![r] = d]
        /\ IF ~nEventsOk
             THEN /\ spc' = [spc EXCEPT ![r] = "badparam"]
                  /\ disk' = [disk EXCEPT ![d] = withMacro]
                  /\ UNCHANGED <<meta, pst>>
             ELSE /\ meta' = [meta EXCEPT ![r] = m]
                  /\ disk' = [disk EXCEPT ![d] = withMeta]
                  /\ IF spawnOk
                       THEN /\ spc' = [spc EXCEPT ![r] = "spawn"]
                            /\ pst' = [pst EXCEPT ![r] = "alive"]
                       ELSE /\ spc' = [spc EXCEPT ![r] = "spawnfail"]
                            /\ UNCHANGED pst
  /\ UNCHANGED <<proc, info, logs, rc, sigkill, monVars, subVars, finHist>>
  /\ stopResult' = "none"
  /\ Aside

\* simulation.py:25-31 and run_api.py:80: the spawn is set up; install the
\* session, create the monitor task, answer "started".
StartRunInstallHandleOnly(r) ==
  /\ spc[r] = "spawn"
  /\ proc' = r
  /\ logs' = [logs EXCEPT ![r] = <<>>]
  /\ mpc' = [mpc EXCEPT ![r] = "read"]
  /\ spc' = [spc EXCEPT ![r] = "started"]
  /\ UNCHANGED <<clock, stamp, meta, info, procVars, nread, disk,
                 subVars, finHist>>
  /\ stopResult' = "none"
  /\ Aside
StartRunInstall(r) ==
  /\ spc[r] = "spawn"
  /\ proc' = r
  /\ info' = r
  /\ logs' = [logs EXCEPT ![r] = <<>>]
  /\ mpc' = [mpc EXCEPT ![r] = "read"]
  /\ spc' = [spc EXCEPT ![r] = "started"]
  /\ UNCHANGED <<clock, stamp, meta, procVars, nread, disk,
                 subVars, finHist>>
  /\ stopResult' = "none"
  /\ Aside

\* --------------------------------------------------- the external process
\* The pipe between the process and the monitor is not a variable: a line is
\* modelled at the moment readline() returns it, and pst[r] = "exited" once
\* the process has ended and its pipe is drained.
\* The process ends: by itself with code c, or by the pending SIGKILL.
ProcExit(r, c) ==
  /\ pst[r] = "alive"
  /\ pst' = [pst EXCEPT ![r] = "exited"]
  /\ rc' = [rc EXCEPT ![r] = IF sigkill[r] THEN KillCode ELSE c]
  /\ UNCHANGED <<clock, startVars, proc, info, logs, sigkill, monVars,
                 disk, subVars, finHist>>
  /\ stopResult' = "none"
  /\ Aside

\* ------------------------------------- _monitor_process (simulation.py:34)
\* simulation.py:42  the list the monitor appends to: the log of whatever
\* session the slot holds now (none when the slot is empty).
AppendTarget(r) == info

\* simulation.py:38-43: readline() returns a line; decode, strip, append.
MonitorReadLine(r) ==
  /\ mpc[r] = "read"
  /\ pst[r] = "alive"
  /\ nread[r] < MaxLines
  /\ LET text == Rstrip(RawLine(r, nread[r] + 1))
         tgt  == AppendTarget(r)
     IN logs' = IF tgt # NoRun
                  THEN [logs EXCEPT ![tgt] = Append(@, text)]
                  ELSE logs
  /\ nread' = [nread EXCEPT ![r] = @ + 1]
  /\ UNCHANGED <<clock, startVars, proc, info, procVars, mpc, disk, subVars, finHist>>
  /\ stopResult' = "none"
  /\ Aside

\* simulation.py:38-40,47: readline() returns b"" (process ended, pipe drained);
\* leave the loop and suspend in `await proc.wait()`.
MonitorReadEOF(r) ==
  /\ mpc[r] = "read"
  /\ pst[r] = "exited"
  /\ mpc' = [mpc EXCEPT ![r] = "wait"]
  /\ UNCHANGED <<clock, startVars, proc, info, logs, procVars, nread, disk, subVars, finHist>>
  /\ stopResult' = "none"
  /\ Aside

\* simulation.py:38,44-47: readline() (or the decoding of what it returned)
\* raises; `except Exception: pass` swallows the error, the loop is left with
\* the lines read so far and the monitor suspends in `await proc.wait()`.
MonitorReadFail(r) ==
  /\ mpc[r] = "read"
  /\ mpc' = [mpc EXCEPT ![r] = "wait"]
  /\ readErr' = readErr \cup {r}
  /\ statusResp' = <<>>
  /\ stopResult' = "none"
  /\ UNCHANGED <<clock, startVars, proc, info, logs, procVars, nread, disk,
                 subVars, finHist, geoVars>>

\* simulation.py:47-60: proc.wait() returns; classify, stamp the finish time,
\* rewrite meta.json, write log.txt when the slot holds a session, clear the
\* slot.  No await in these lines: one atomic step.
MonitorFinalizeKeepsSlot(r, now) ==
  /\ mpc[r] = "wait"
  /\ pst[r] = "exited"
  /\ clock' = now
  /\ LET m == [status |-> Classify(rc[r]), finished |-> now]
         d == stamp[r]
         withMeta == [disk[d] EXCEPT !.meta = <<MetaFile(r, d, m)>>]
         withLog  == [withMeta EXCEPT !.log = <<logs[info]>>]
     IN /\ meta' = [meta EXCEPT ![r] = m]
        /\ disk' = [disk EXCEPT ![d] = IF info # NoRun THEN withLog
                                                       ELSE withMeta]
  /\ finHist' = Append(finHist, [mon |-> r, slot |-> info,
                                 log |-> info # NoRun])
  /\ mpc' = [mpc EXCEPT ![r] = "done"]
  /\ UNCHANGED <<spc, stamp, proc, info, logs, procVars, nread, subVars>>
  /\ stopResult' = "none"
  /\ Aside
MonitorFinalize(r, now) ==
  /\ mpc[r] = "wait"
  /\ pst[r] = "exited"
  /\ clock' = now
  /\ LET m == [status |-> Classify(rc[r]), finished |-> now]
         d == stamp[r]
         withMeta == [disk[d] EXCEPT !.meta = <<MetaFile(r, d, m)>>]
         withLog  == [withMeta EXCEPT !.log = <<logs[info]>>]
     IN /\ meta' = [meta EXCEPT ![r] = m]
        /\ disk' = [disk EXCEPT ![d] = IF info # NoRun THEN withLog
                                                       ELSE withMeta]
  /\ finHist' = Append(finHist, [mon |-> r, slot |-> info,
                                 log |-> info # NoRun])
  /\ proc' = NoRun
  /\ info' = NoRun
  /\ mpc' = [mpc EXCEPT ![r] = "done"]
  /\ UNCHANGED <<spc, stamp, logs, procVars, nread, subVars>>
  /\ stopResult' = "none"
  /\ Aside

\* simulation.py:47-57: the process has exited and a write of the
\* finalization raises OSError: write_text of meta.json (line 52), or, with
\* meta.json written and a session in the slot, write_text of log.txt (line
\* 55).  Nothing in _monitor_process catches it: the exception ends the task
\* before lines 59-60, and the slot is left as it is.
MonitorFinalizeFail(r, now, atLog) ==
  /\ mpc[r] = "wait"
  /\ pst[r] = "exited"
  /\ atLog => info # NoRun
  /\ clock' = now
  /\ LET m == [status |-> Classify(rc[r]), finished |-> now]
         d == stamp[r]
         withMeta == [disk[d] EXCEPT !.meta = <<MetaFile(r, d, m)>>]
     IN /\ meta' = [meta EXCEPT ![r] = m]
        /\ disk' = IF atLog THEN [disk EXCEPT ![d] = withMeta] ELSE disk
  /\ mpc' = [mpc EXCEPT ![r] = "failed"]
  /\ UNCHANGED <<spc, stamp, proc, info, logs, procVars, nread, subVars,
                 finHist>>
  /\ stopResult' = "none"
  /\ Aside

\* ------------------------------------- stop_simulation (simulation.py:63)
\* simulation.py:69  proc.kill(): SIGKILL to a live process; on a process
\* that has exited it raises ProcessLookupError or does nothing.
KillNoSignal(r) == sigkill
Kill(r) == IF pst[r] = "alive" THEN [sigkill EXCEPT ![r] = TRUE] ELSE sigkill

StopSimulationClears ==
  /\ IF proc = NoRun
       THEN /\ stopResult' = "no simulation running"
            /\ UNCHANGED <<sigkill, proc, info>>
       ELSE /\ sigkill' = Kill(proc)
            /\ stopResult' = "killed"
            /\ proc' = NoRun
            /\ info' = NoRun
  /\ UNCHANGED <<clock, startVars, logs, pst, rc, monVars, disk,
                 subVars, finHist>>
  /\ Aside

StopSimulation ==
  /\ IF proc = NoRun
       THEN /\ stopResult' = "no simulation running"
            /\ UNCHANGED sigkill
       ELSE /\ sigkill' = Kill(proc)
            /\ stopResult' = "killed"
  /\ UNCHANGED <<clock, startVars, proc, info, logs, pst, rc, monVars,
                 disk, subVars, finHist>>
  /\ Aside

\* ----------------------------------------- get_status (simulation.py:75)
\* simulation.py:84  log_lines[-100:]
TailLimit == 100
LastNWhole(s, n) == s
LastN(s, n) == IF Len(s) <= n THEN s ELSE SubSeq(s, Len(s) - n + 1, Len(s))

GetStatus ==
  IF proc = NoRun
    THEN [running |-> FALSE]
    ELSE [running |-> TRUE, runDir |-> stamp[info], meta |-> meta[info],
          logTail |-> LastN(logs[info], TailLimit),
          logLength |-> Len(logs[info])]

\* run_api.py:90-93  GET /api/run/status: the handler has no await, it
\* answers with get_status() in one step.
RunStatus ==
  /\ statusResp' = <<GetStatus>>
  /\ stopResult' = "none"
  /\ UNCHANGED <<clock, startVars, proc, info, logs, procVars, monVars, disk,
                 subVars, finHist, readErr, geoVars>>

\* ------------------------------------------ websocket_log (run_api.py:99)
Msg(r, k) == [text |-> logs[r][k], sess |-> r, pos |-> k]

\* run_api.py:101-102: accept the socket, sent = 0.  Subscribers are
\* numbered in the order they attach.
SubAttach(s) ==
  /\ sub[s].pc = "new"
  /\ \A t \in Sub : t < s => sub[t].pc # "new"
  /\ sub' = [sub EXCEPT ![s] = [NewSub EXCEPT !.pc = "poll", !.att = info]]
  /\ UNCHANGED <<clock, startVars, proc, info, logs, procVars, monVars,
                 disk, delivered, finHist>>
  /\ stopResult' = "none"
  /\ Aside

\* run_api.py:105-109: a session is present and its list is longer than
\* `sent`; take the slice lines[sent:], start sending its first line and
\* suspend in that send.
SubPollLines(s) ==
  /\ sub[s].pc = "poll"
  /\ info # NoRun
  /\ Len(logs[info]) > sub[s].sent
  /\ sub' = [sub EXCEPT ![s].pc = "send", ![s].ref = info,
                        ![s].cur = sub[s].sent + 1,
                        ![s].end = Len(logs[info])]
  /\ delivered' = [delivered EXCEPT
                     ![s] = Append(@, Msg(info, sub[s].sent + 1))]
  /\ UNCHANGED <<clock, startVars, proc, info, logs, procVars, monVars,
                 disk, finHist>>
  /\ stopResult' = "none"
  /\ Aside

\* run_api.py:110  the cursor after the slice has been sent: the length the
\* list has now.
CursorKept(s) == sub[s].sent
CursorAfterSend(s) == Len(logs[sub[s].ref])

\* run_api.py:108-110,116: a send has completed; send the next line of the
\* slice, or, the slice being exhausted, set `sent` and go to sleep.
SubResume(s) ==
  /\ sub[s].pc = "send"
  /\ IF sub[s].cur < sub[s].end
       THEN /\ sub' = [sub EXCEPT ![s].cur = @ + 1]
            /\ delivered' = [delivered EXCEPT
                               ![s] = Append(@, Msg(sub[s].ref,
                                                    sub[s].cur + 1))]
       ELSE /\ sub' = [sub EXCEPT ![s].pc = "poll",
                                  ![s].sent = CursorAfterSend(s),
                                  ![s].ref = NoRun, ![s].cur = 0,
                                  ![s].end = 0]
            /\ UNCHANGED delivered
  /\ UNCHANGED <<clock, startVars, proc, info, logs, procVars, monVars,
                 disk, finHist>>
  /\ stopResult' = "none"
  /\ Aside

\* run_api.py:111-115: no session and something was sent before: send the
\* sentinel and leave the loop.
SubPollDone(s) ==
  /\ sub[s].pc = "poll"
  /\ info = NoRun
  /\ sub[s].sent > 0
  /\ sub' = [sub EXCEPT ![s].pc = "closed"]
  /\ delivered' = [delivered EXCEPT ![s] = Append(@, Sentinel)]
  /\ UNCHANGED <<clock, startVars, proc, info, logs, procVars, monVars,
                 disk, finHist>>
  /\ stopResult' = "none"
  /\ Aside

\* run_api.py:105-116: a poll that finds nothing to send (a session with no
\* new line, or no session and sent = 0) sleeps again and changes nothing: it
\* is a stuttering step.

\* ---------------------------------------------------------- specification
\* The supervisor: start, the external processes, the monitors, stop.
\* Subscribers only read the slot and the logs, so they are left out here.
Next ==
  \/ \E r \in Req : StartRunCheck(r)
  \/ \E r \in Req, now \in Times, nEventsOk \in BOOLEAN, spawnOk \in BOOLEAN :
       StartRunPrepare(r, now, nEventsOk, spawnOk)
  \/ \E r \in Req : StartRunInstall(r)
  \/ \E r \in Req, c \in ExitCodes : ProcExit(r, c)
  \/ \E r \in Req : MonitorReadLine(r)
  \/ \E r \in Req : MonitorReadEOF(r)
  \/ \E r \in Req : MonitorReadFail(r)
  \/ \E r \in Req, now \in Times : MonitorFinalize(r, now)
  \/ StopSimulation

Spec == Init /\ [][Next]_vars

\* Status requests at any moment of the supervisor's life.  Besides the
\* initial state, the exploration starts from a run that was started alone
\* and whose monitor has read n lines so far, for log lengths n around the
\* tail limit of get_status().
TailLens == {TailLimit, TailLimit + 1}

LongRun(n) ==
  LET m == [status |-> Running, finished |-> 0]
  IN /\ clock = 1
     /\ spc = [r \in Req |-> IF r = 1 THEN "started" ELSE "new"]
     /\ stamp = [r \in Req |-> IF r = 1 THEN 1 ELSE 0]
     /\ meta = [r \in Req |-> IF r = 1 THEN m ELSE NoMeta]
     /\ proc = 1
     /\ info = 1
     /\ logs = [r \in Req |-> IF r = 1 THEN Emitted(1, n) ELSE <<>>]
     /\ pst = [r \in Req |-> IF r = 1 THEN "alive" ELSE "none"]
     /\ rc = [r \in Req |-> 0]
     /\ sigkill = [r \in Req |-> FALSE]
     /\ mpc = [r \in Req |-> IF r = 1 THEN "read" ELSE "none"]
     /\ nread = [r \in Req |-> IF r = 1 THEN n ELSE 0]
     /\ disk = [d \in Dirs |->
                  IF d = 1 THEN [exists |-> TRUE, macro |-> <<1>>,
                                 meta |-> <<MetaFile(1, 1, m)>>, log |-> <<>>]
                           ELSE EmptyDir]
     /\ stopResult = "none"
     /\ sub = [s \in Sub |-> NewSub]
     /\ delivered = [s \in Sub |-> <<>>]
     /\ finHist = <<>>
     /\ readErr = {}
     /\ statusResp = <<>>
     /\ call = NoCall
     /\ ret = <<>>

InitStatus == Init \/ \E n \in TailLens : LongRun(n)

NextStatus == Next \/ RunStatus

SpecStatus == InitStatus /\ [][NextStatus]_vars

\* Log streaming: the subscribers together with everything that changes the
\* slot or a log (starts that succeed, process exit, the monitors).
NextStream ==
  \/ \E r \in Req : StartRunCheck(r)
  \/ \E r \in Req, now \in Times : StartRunPrepare(r, now, TRUE, TRUE)
  \/ \E r \in Req : StartRunInstall(r)
  \/ \E r \in Req, c \in ExitCodes : ProcExit(r, c)
  \/ \E r \in Req : MonitorReadLine(r)
  \/ \E r \in Req : MonitorReadEOF(r)
  \/ \E r \in Req, now \in Times : MonitorFinalize(r, now)
  \/ \E s \in Sub : SubAttach(s)
  \/ \E s \in Sub : SubPollLines(s)
  \/ \E s \in Sub : SubResume(s)
  \/ \E s \in Sub : SubPollDone(s)

SpecStream == Init /\ [][NextStream]_vars

\* Scheduling: the event loop resumes every task that is ready, and the
\* operating system ends a process that was sent SIGKILL.  A process that was
\* not killed may run forever.
Fairness ==
  \A r \in Req :
    /\ WF_vars(sigkill[r] /\ \E c \in ExitCodes : ProcExit(r, c))
    /\ WF_vars(MonitorReadEOF(r))
    /\ WF_vars(\E now \in Times : MonitorFinalize(r, now))

FairSpec == Spec /\ Fairness

\* The supervisor on a storage whose writes may fail during finalization.
NextStorage ==
  \/ Next
  \/ \E r \in Req, now \in Times, atLog \in BOOLEAN :
       MonitorFinalizeFail(r, now, atLog)

SpecStorage == Init /\ [][NextStorage]_vars

FairStorage == SpecStorage /\ Fairness

FairStream ==
  /\ SpecStream
  /\ Fairness
  /\ \A s \in Sub : WF_vars(SubPollLines(s) \/ SubResume(s) \/ SubPollDone(s))

\* ================================================ geometry (geometry.py)
\* Arrays are functions on 0..n-1, as the triangle tables index them; the
\* triangle tables i, j, k are sequences of such indices.
\* A box vertex is its cartesian triple.  A vertex of a cylinder or sphere is
\* kept in the form the code computes it from: radius and angles as
\* fractions of a turn, so the point (r cos(2 pi k/n), r sin(2 pi k/n), z)
\* is [r |-> r, k |-> k, n |-> n, z |-> z].

\* geometry.py:47-50  the eight corners, as signs of (dx, dy, dz)
BoxSigns == [c \in 0..7 |->
               <<IF c \in {1, 2, 5, 6} THEN 1 ELSE -1,
                 IF c \in {2, 3, 6, 7} THEN 1 ELSE -1,
                 IF c \in {4, 5, 6, 7} THEN 1 ELSE -1>>]

\* geometry.py:45-54
box_mesh(dx, dy, dz) ==
  [verts |-> [c \in 0..7 |-> <<BoxSigns[c][1] * dx, BoxSigns[c][2] * dy,
                                BoxSigns[c][3] * dz>>],
   i |-> <<0, 0, 4, 4, 0, 0, 2, 2, 0, 0, 1, 1>>,
   j |-> <<1, 2, 5, 6, 1, 4, 3, 7, 3, 4, 2, 5>>,
   k |-> <<2, 3, 6, 7, 5, 7, 7, 6, 4, 3, 6, 6>>]

\* geometry.py:75, 103  the neighbour of a on a ring of n
WrapNone(a, n) == a + 1
WrapSelf(a, n) == a
WrapFirst(a, n) == 0
Wrap(a, n) == (a + 1) % n

\* geometry.py:57-85
cylinder_mesh(radius, half_h, n_seg) ==
  LET bottom_center == 2 * n_seg
      top_center == 2 * n_seg + 1
      ring(c) == [r |-> radius, k |-> c % n_seg, n |-> n_seg,
                  z |-> IF c < n_seg THEN -half_h ELSE half_h]
      b0(seg) == seg
      b1(seg) == Wrap(seg, n_seg)
      t0(seg) == seg + n_seg
      t1(seg) == Wrap(seg, n_seg) + n_seg
      \* the four triangles of a segment: two side, bottom cap, top cap
      ii(seg) == <<b0(seg), b1(seg), bottom_center, top_center>>
      jj(seg) == <<b1(seg), t1(seg), b1(seg), t0(seg)>>
      kk(seg) == <<t0(seg), t0(seg), b0(seg), t1(seg)>>
      flat(f(_)) == [t \in 1..(4 * n_seg) |->
                       f((t - 1) \div 4)[((t - 1) % 4) + 1]]
  IN [verts |-> [c \in 0..(2 * n_seg + 1) |->
                   IF c = bottom_center
                     THEN [r |-> 0, k |-> 0, n |-> 1, z |-> -half_h]
                   ELSE IF c = top_center
                     THEN [r |-> 0, k |-> 0, n |-> 1, z |-> half_h]
                   ELSE ring(c)],
      i |-> flat(ii), j |-> flat(jj), k |-> flat(kk)]

\* geometry.py:88-109  a vertex is (r, theta = pi lat/n_lat,
\* phi = 2 pi lon/n_lon)
sphere_mesh(radius, n_lat, n_lon) ==
  LET v0(lat, lon) == lat * n_lon + lon
      v1(lat, lon) == lat * n_lon + Wrap(lon, n_lon)
      v2(lat, lon) == (lat + 1) * n_lon + lon
      v3(lat, lon) == (lat + 1) * n_lon + Wrap(lon, n_lon)
      ii(lat, lon) == <<v0(lat, lon), v1(lat, lon)>>
      jj(lat, lon) == <<v1(lat, lon), v3(lat, lon)>>
      kk(lat, lon) == <<v2(lat, lon), v2(lat, lon)>>
      flat(f(_, _)) == [t \in 1..(2 * n_lat * n_lon) |->
                          f(((t - 1) \div 2) \div n_lon,
                            ((t - 1) \div 2) % n_lon)[((t - 1) % 2) + 1]]
  IN [verts |-> [c \in 0..((n_lat + 1) * n_lon - 1) |->
                   [r |-> radius, lat |-> c \div n_lon, n_lat |-> n_lat,
                    lon |-> c % n_lon, n_lon |-> n_lon]],
      i |-> flat(ii), j |-> flat(jj), k |-> flat(kk)]

\* geometry.py:57, 88  the default resolutions
DefaultSeg == 24
DefaultLat == 12
DefaultLon == 24

\* The mesh generators, each called once with arguments from a bounded set:
\* extents 0..MaxDim, ring resolutions 1..MaxSeg and the defaults.
Dim  == 0..MaxDim
Segs == 1..MaxSeg
MeshCalls ==
  [fn : {"box_mesh"}, dx : Dim, dy : Dim, dz : Dim]
    \cup [fn : {"cylinder_mesh"}, radius : Dim, half_h : Dim,
           n_seg : Segs \cup {DefaultSeg}]
    \cup [fn : {"sphere_mesh"}, radius : Dim, n_lat : Segs \cup {DefaultLat},
           n_lon : Segs \cup {DefaultLon}]

InitMesh == InitSupervisor /\ call \in MeshCalls /\ ret = <<>>

BoxMeshCall ==
  /\ call.fn = "box_mesh"
  /\ ret = <<>>
  /\ ret' = <<box_mesh(call.dx, call.dy, call.dz)>>
  /\ UNCHANGED <<call, supVars>>

CylinderMeshCall ==
  /\ call.fn = "cylinder_mesh"
  /\ ret = <<>>
  /\ ret' = <<cylinder_mesh(call.radius, call.half_h, call.n_seg)>>
  /\ UNCHANGED <<call, supVars>>

SphereMeshCall ==
  /\ call.fn = "sphere_mesh"
  /\ ret = <<>>
  /\ ret' = <<sphere_mesh(call.radius, call.n_lat, call.n_lon)>>
  /\ UNCHANGED <<call, supVars>>

NextMesh == BoxMeshCall \/ CylinderMeshCall \/ SphereMeshCall

SpecMesh == InitMesh /\ [][NextMesh]_vars

\* ------------------------------------------------ colours (geometry.py:16)
\* A number is kept in thousandths (0.6 is 600); a JSON value that is not a
\* number is [num |-> FALSE].  A colour is [kind, items]: a list of values
\* or a string of characters (none of them a number).
Num(v)  == [num |-> TRUE, v |-> v]
NotNum  == [num |-> FALSE, v |-> 0]
List(q) == [kind |-> "list", items |-> q]
Str(n)  == [kind |-> "string", items |-> [c \in 1..n |-> NotNum]]
Null    == [kind |-> "null", items |-> <<>>]

\* int(): truncation towards zero of n/d
Trunc(n, d) == IF n >= 0 THEN n \div d ELSE -((-n) \div d)

\* geometry.py:20  int(c * 255) if c <= 1 else int(c)
Channel(c) == IF c.v <= 1000 THEN Trunc(c.v * 255, 1000) ELSE Trunc(c.v, 1000)

Raised == [raised |-> TRUE]

\* geometry.py:16-22  the text "rgba(r,g,b,a)" as its four numbers, or the
\* TypeError of comparing a value that is not a number
rgba_strRaises(color, alpha_override) ==
  /\ Len(color.items) >= 3
  /\ \E c \in 1..3 : ~color.items[c].num

rgba_str(color, alpha_override) ==
  IF Len(color.items) < 3
    THEN [raised |-> FALSE, r |-> 150, g |-> 150, b |-> 150, a |-> Num(250)]
  ELSE IF rgba_strRaises(color, alpha_override)
    THEN Raised
  ELSE [raised |-> FALSE,
        r |-> Channel(color.items[1]),
        g |-> Channel(color.items[2]),
        b |-> Channel(color.items[3]),
        a |-> IF alpha_override # <<>> THEN Num(alpha_override[1])
              ELSE IF Len(color.items) > 3 THEN color.items[4]
              ELSE Num(300)]

\* ----------------------------------- add_geometry_traces (geometry.py:116)
\* A dict is a function on the keys it has.
NoKeys == [key \in {} |-> 0]
Get(d, key, default) == IF key \in DOMAIN d THEN d[key] ELSE default

\* geometry.py:128  the colour of a material that names none
DefaultColorBlack == List(<<Num(0), Num(0), Num(0), Num(300)>>)
DefaultColor == List(<<Num(600), Num(600), Num(600), Num(300)>>)

\* geometry.py:133-140  dims.get(key, 0) / 2.0
Half(v) == v \div 2

\* ------------------------------------------- rotation (geometry.py:29-38)
\* Angles are whole quarter turns, for which cosine and sine are the exact
\* integers 0, 1, -1 (the floating point values differ from them by less
\* than 1e-15).  A matrix is the triple of its rows.
Cos90(deg) == <<1, 0, -1, 0>>[((deg \div 90) % 4) + 1]
Sin90(deg) == <<0, 1, 0, -1>>[((deg \div 90) % 4) + 1]

Dot(u, v) == u[1] * v[1] + u[2] * v[2] + u[3] * v[3]
Column(m, c) == <<m[1][c], m[2][c], m[3][c]>>
MatVec(m, v) == <<Dot(m[1], v), Dot(m[2], v), Dot(m[3], v)>>
MatMul(a, b) == [r \in 1..3 |-> [c \in 1..3 |-> Dot(a[r], Column(b, c))]]

\* geometry.py:29-38  Rz @ Ry @ Rx
rotation_matrixXYZ(rx, ry, rz) ==
  LET Rx == <<<<1, 0, 0>>, <<0, Cos90(rx), -Sin90(rx)>>,
              <<0, Sin90(rx), Cos90(rx)>>>>
      Ry == <<<<Cos90(ry), 0, Sin90(ry)>>, <<0, 1, 0>>,
              <<-Sin90(ry), 0, Cos90(ry)>>>>
      Rz == <<<<Cos90(rz), -Sin90(rz), 0>>, <<Sin90(rz), Cos90(rz), 0>>,
              <<0, 0, 1>>>>
  IN MatMul(MatMul(Rx, Ry), Rz)
rotation_matrix(rx, ry, rz) ==
  LET Rx == <<<<1, 0, 0>>, <<0, Cos90(rx), -Sin90(rx)>>,
              <<0, Sin90(rx), Cos90(rx)>>>>
      Ry == <<<<Cos90(ry), 0, Sin90(ry)>>, <<0, 1, 0>>,
              <<-Sin90(ry), 0, Cos90(ry)>>>>
      Rz == <<<<Cos90(rz), -Sin90(rz), 0>>, <<Sin90(rz), Cos90(rz), 0>>,
              <<0, 0, 1>>>>
  IN MatMul(MatMul(Rz, Ry), Rx)

\* geometry.py:158-164  a vertex after the optional rotation and the shift.
\* A box corner is placed as a triple of numbers; a vertex of a cylinder or a
\* sphere is kept as the local vertex with the rotation (degrees about
\* x, y, z) and the shift applied to it.
PlacedNoShift(vtype, v, rot, shift) ==
  IF rot # <<0, 0, 0>>
    THEN MatVec(rotation_matrix(rot[1], rot[2], rot[3]), v)
    ELSE v
Placed(vtype, v, rot, shift) ==
  IF vtype = "box"
    THEN LET p == IF rot # <<0, 0, 0>>
                    THEN MatVec(rotation_matrix(rot[1], rot[2], rot[3]), v)
                    ELSE v
         IN <<p[1] + shift[1], p[2] + shift[2], p[3] + shift[3]>>
    ELSE [local |-> v, rot |-> rot, shift |-> shift]

\* geometry.py:121  vol.get("visible", True)
Visible(vol) == Get(vol, "visible", TRUE)

\* geometry.py:150-156  the shift and the rotation a placement asks for
ShiftOf(pl) == <<Get(pl, "x", 0), Get(pl, "y", 0), Get(pl, "z", 0)>>
RotationOf(pl) ==
  LET rot == Get(pl, "rotation", NoKeys)
  IN <<Get(rot, "x", 0), Get(rot, "y", 0), Get(rot, "z", 0)>>

\* geometry.py:149-177  one Mesh3d trace
Trace(vol, vtype, mesh, pl, rgba) ==
  LET r3 == RotationOf(pl)
      sh == ShiftOf(pl)
      g4 == Get(vol, "g4name", "")
      vol_name == IF g4 # "" THEN g4 ELSE Get(vol, "name", vtype)
  IN [verts |-> [c \in DOMAIN mesh.verts |->
                   Placed(vtype, mesh.verts[c], r3, sh)],
      i |-> mesh.i, j |-> mesh.j, k |-> mesh.k,
      color |-> rgba, opacity |-> 200, name |-> <<"geom: ", vol_name>>]

\* geometry.py:158-164  the local vertex array after one placement was
\* computed from it.  `placed = verts.copy()` makes the shifts of lines
\* 162-164 work on a copy; without the copy they would work on the local
\* array itself whenever line 161 did not replace it by the rotated array.
AfterPlacementShared(verts, placed, rotated) ==
  IF rotated THEN verts ELSE placed
AfterPlacement(verts, placed, rotated) == verts

\* geometry.py:149-177  the loop over the placements of one volume, from
\* placement n on
RECURSIVE PlacementTraces(_, _, _, _, _, _)
PlacementTraces(vol, vtype, mesh, pls, rgba, n) ==
  IF n > Len(pls)
    THEN <<>>
    ELSE LET t == Trace(vol, vtype, mesh, pls[n], rgba)
             verts == AfterPlacement(mesh.verts, t.verts,
                                     RotationOf(pls[n]) # <<0, 0, 0>>)
         IN <<t>> \o PlacementTraces(vol, vtype,
                                     [mesh EXCEPT !.verts = verts],
                                     pls, rgba, n + 1)

\* geometry.py:130-146  the local mesh of a volume of a supported type
VolumeMesh(vtype, dims) ==
  IF vtype = "box"
    THEN box_mesh(Half(Get(dims, "x", 0)), Half(Get(dims, "y", 0)),
                  Half(Get(dims, "z", 0)))
  ELSE IF vtype = "cylinder"
    THEN cylinder_mesh(Get(dims, "radius", 0),
                       Half(Get(dims, "height", 0)), DefaultSeg)
  ELSE sphere_mesh(Get(dims, "radius", 0), DefaultLat, DefaultLon)

\* geometry.py:120-177  the body of the loop over the volumes: the traces
\* one volume adds, and whether building them raised
VolumeTraces(vol, materials) ==
  LET vtype == Get(vol, "type", "")
      dims == Get(vol, "dimensions", NoKeys)
      mat == Get(materials, Get(vol, "material", ""), NoKeys)
      color == Get(mat, "color", DefaultColor)
      pls == Get(vol, "placements", <<>>)
      rgba == rgba_str(color, <<150>>)
  IN IF ~Visible(vol)
       THEN [raised |-> FALSE, traces |-> <<>>]
     ELSE IF vtype \notin {"box", "cylinder", "sphere"}
       THEN [raised |-> FALSE, traces |-> <<>>]
     ELSE IF pls # <<>> /\ rgba.raised
       THEN [raised |-> TRUE, traces |-> <<>>]
     ELSE [raised |-> FALSE,
           traces |-> PlacementTraces(vol, vtype, VolumeMesh(vtype, dims),
                                      pls, rgba, 1)]

\* geometry.py:116-177  the traces added to the figure, volume after
\* volume; an exception ends the loop and leaves the function.
RECURSIVE TracesFrom(_, _, _)
TracesFrom(volumes, materials, n) ==
  IF n > Len(volumes)
    THEN [raised |-> FALSE, traces |-> <<>>]
    ELSE LET first == VolumeTraces(volumes[n], materials)
             rest == TracesFrom(volumes, materials, n + 1)
         IN IF first.raised
              THEN first
              ELSE [raised |-> rest.raised, traces |-> first.traces \o rest.traces]

add_geometry_traces(geom, materials) ==
  TracesFrom(Get(geom, "volumes", <<>>), materials, 1)

\* The geometry descriptions the builder is called with.
\* Placement n of a volume: odd n are shifted along x only, even n are
\* shifted along y and turned a quarter about z.
Pl(n) == IF n % 2 = 1
           THEN ("x" :> n)
           ELSE ("x" :> 0) @@ ("y" :> n) @@ ("z" :> 0)
                  @@ ("rotation" :> ("z" :> 90))
Placements(n) == [q \in 1..n |-> Pl(q)]

Field(key, opt) == IF opt = <<>> THEN NoKeys ELSE key :> opt[1]

Dimensions(type) ==
  IF type = <<"box">> THEN "dimensions" :> [x |-> 2, y |-> 2, z |-> 4]
  ELSE IF type = <<"cylinder">> THEN "dimensions" :> [radius |-> 1, height |-> 2]
  ELSE IF type = <<>> THEN NoKeys
  ELSE "dimensions" :> [radius |-> 1]

Types == {<<>>, <<"box">>, <<"cylinder">>, <<"sphere">>, <<"torus">>}

Volume(type, visible, npl, material, g4name, name) ==
  Field("type", type) @@ Dimensions(type) @@ Field("visible", visible)
    @@ Field("material", material) @@ Field("g4name", g4name)
    @@ Field("name", name)
    @@ (IF npl = <<>> THEN NoKeys ELSE "placements" :> Placements(npl[1]))

\* Every combination of type, visibility and number of placements (the
\* placements may be missing), and for a box every way of naming it and of
\* referring to a material.
Volumes ==
  {Volume(t, v, n, <<"Fe">>, <<>>, <<"V">>) :
     t \in Types, v \in {<<>>, <<TRUE>>, <<FALSE>>},
     n \in {<<>>} \cup {<<q>> : q \in 1..MaxPl}}
    \cup {Volume(<<"box">>, <<>>, <<1>>, m, g, nm) :
            m \in {<<>>, <<"Fe">>}, g \in {<<>>, <<"G">>, <<"">>},
            nm \in {<<>>, <<"V">>}}

Colors == {Null, List(<<>>), List(<<Num(1000), Num(0)>>),
           List(<<Num(1000), Num(500), Num(0)>>),
           List(<<Num(200), Num(200000), Num(800), Num(500)>>),
           List(<<Num(1000), NotNum, Num(0)>>),
           Str(3)}

MaterialMaps ==
  {NoKeys, "Fe" :> NoKeys} \cup {"Fe" :> ("color" :> c) : c \in Colors}

Geometries ==
  {Field("volumes", vs) @@ Field("materials", ms) :
     vs \in {<<>>} \cup {<<q>> : q \in UNION {[1..n -> Volumes] : n \in 0..MaxVols}},
     ms \in {<<>>} \cup {<<m>> : m \in MaterialMaps}}

InitScene ==
  /\ InitSupervisor
  /\ call \in [fn : {"add_geometry_traces"}, geom : Geometries]
  /\ ret = <<>>

\* results_api.py:125-126  materials = geom.get("materials", {}) and the
\* call of add_geometry_traces
AddGeometryTraces ==
  /\ call.fn = "add_geometry_traces"
  /\ ret = <<>>
  /\ ret' = <<add_geometry_traces(call.geom,
                                   Get(call.geom, "materials", NoKeys))>>
  /\ UNCHANGED <<call, supVars>>

NextScene == AddGeometryTraces

SpecScene == InitScene /\ [][NextScene]_vars

\* One box of half-sizes (1, 2, 3) placed once: every rotation by quarter
\* turns about the three axes (or no rotation entry at all), every shift.
Angles == {90 * q : q \in -1..MaxTurn}
Shifts == (-MaxShift)..MaxShift
Rotations == {<<>>} \cup {<<[x |-> a, y |-> b, z |-> c]>> :
                            a \in Angles, b \in Angles, c \in Angles}
PlacedBox(rotation, x, y, z) ==
  "volumes" :>
     <<[type |-> "box", name |-> "V",
        dimensions |-> [x |-> 2, y |-> 4, z |-> 6],
        placements |-> <<[x |-> x, y |-> y, z |-> z]
                           @@ Field("rotation", rotation)>>]>>

InitPlace ==
  /\ InitSupervisor
  /\ call \in [fn : {"add_geometry_traces"},
                geom : {PlacedBox(r, x, y, z) :
                          r \in Rotations, x \in Shifts, y \in Shifts,
                          z \in Shifts}]
  /\ ret = <<>>

SpecPlace == InitPlace /\ [][NextScene]_vars

\* ===================================================================== claims
Alive == {r \in Req : pst[r] = "alive"}
NonSlot == <<clock, stamp, meta, logs, procVars, monVars, disk, subVars,
             finHist>>

\* C1: at most one external process launched by the supervisor is alive, in
\* every reachable state and for every interleaving of start requests.
SingleFlight == Cardinality(Alive) <= 1

\* C2: a start_run that begins while the slot holds a session answers
\* Conflict and changes nothing: slot, logs, metadata, run directories,
\* processes and monitors are as before.
ConflictChangesNothing ==
  [][\A r \in Req :
       (spc[r] = "new" /\ spc'[r] # "new" /\ proc # NoRun)
         => /\ spc'[r] = "conflict"
            /\ UNCHANGED <<proc, info, NonSlot>>]_vars

ConflictSeen ==
  \E r \in Req : spc[r] = "conflict" /\ proc # NoRun /\ proc # r
                 /\ pst[proc] = "alive"

\* C3: when a monitor finalizes a process that exited with code c, meta.json
\* of its run directory gets status completed if c = 0 and error(c)
\* otherwise, and get_status() then reports not running.
OutcomeClassified ==
  [][\A r \in Req :
       (mpc[r] = "wait" /\ mpc'[r] = "done")
         => /\ Len(disk'[stamp[r]].meta) = 1
            /\ LET rec == disk'[stamp[r]].meta[1]
               IN /\ rec.run = r
                  /\ (rec.status.kind = "completed") <=> (rc[r] = 0)
                  /\ rc[r] # 0 => rec.status = [kind |-> "error",
                                                code |-> rc[r]]
            /\ GetStatus'.running = FALSE]_vars

FailureRecorded ==
  \E r \in Req : /\ mpc[r] = "done"
                 /\ rc[r] = 1
                 /\ disk[stamp[r]].meta[1].status = [kind |-> "error",
                                                     code |-> 1]
                 /\ proc = NoRun

\* C4: for every session a successful start installed, the finalization
\* sequence (finish time, meta.json, log.txt, slot cleared) has been executed
\* exactly once by that session's own monitor when that monitor has ended.
FinalizationsOf(r) ==
  {i \in DOMAIN finHist :
     finHist[i].mon = r /\ finHist[i].slot = r /\ finHist[i].log}

FinalizedOncePerSession ==
  \A r \in Req : mpc[r] = "done" => Cardinality(FinalizationsOf(r)) = 1

\* C8: after stop_simulation() has returned "killed" for the session in the
\* slot, the slot is eventually empty with that session's monitor ended and
\* meta.json of its run directory carrying a terminal status (not "running"),
\* given that the killed process ends and the monitor is scheduled.
Terminal(r) ==
  /\ Len(disk[stamp[r]].meta) = 1
  /\ disk[stamp[r]].meta[1].status.kind \in {"completed", "error"}

StopSignalOnly ==
  [][stopResult' # "none" =>
       /\ UNCHANGED <<proc, info, clock, spc, stamp, meta, logs, pst, rc,
                      monVars, disk, subVars, finHist>>
       /\ IF proc = NoRun
            THEN stopResult' = "no simulation running" /\ UNCHANGED sigkill
            ELSE /\ stopResult' = "killed"
                 /\ \A r \in Req : r # proc => sigkill'[r] = sigkill[r]
                 /\ pst[proc] = "exited" => UNCHANGED sigkill]_vars

StoppedExited ==
  /\ stopResult = "killed"
  /\ proc # NoRun
  /\ pst[proc] = "exited"
  /\ mpc[proc] # "done"

\* C10: the log of every session is a prefix of the lines its own process
\* wrote, in the order they were written.
LogIsOwnPrefix ==
  \A r \in Req : IsPrefix(logs[r], Emitted(r, MaxLines))

\* ------------------------------------------------------- streaming claims
Lines(s) == {i \in DOMAIN delivered[s] : delivered[s][i].sess # NoRun}
Sentinels(s) == {i \in DOMAIN delivered[s] : delivered[s][i] = Sentinel}
Received(s, r) == {delivered[s][i].pos : i \in {j \in Lines(s) :
                                                  delivered[s][j].sess = r}}
\* The session that was in the slot when s attached is no longer there.
AttachedCleared(s) == sub[s].att # NoRun /\ info # sub[s].att

\* C5: a subscriber that attached while a session was live has, when its
\* stream has ended, received every line of that session's log.
StreamComplete ==
  \A s \in Sub :
    (sub[s].pc = "closed" /\ sub[s].att # NoRun)
      => Received(s, sub[s].att) = DOMAIN logs[sub[s].att]

SentinelOnceAtEnd ==
  \A s \in Sub :
    /\ [](Sentinels(s) \subseteq {Len(delivered[s])})
    /\ AttachedCleared(s) ~> (sub[s].pc = "closed" /\ Sentinels(s) # {})

\* --------------------------------------------------- finalization claims
Started == {r \in Req : spc[r] = "started"}

\* C11: the slot is cleared only after meta.json was rewritten with a terminal
\* status and log.txt was written, so whenever the slot is empty every run
\* whose start succeeded has a meta.json with a terminal status (never
\* "running") in its run directory.
IdleMeansFinished ==
  proc = NoRun => \A r \in Started : Terminal(r)

\* C14: log.txt of a run whose start succeeded is written exactly once, at
\* finalization, with exactly the lines the monitor accumulated for that run,
\* in order: absent from the run directory until the run's monitor finalizes,
\* present from then on.
LogWrites(r) == {i \in DOMAIN finHist : finHist[i].mon = r /\ finHist[i].log}

LogArtifactAtFinalization ==
  \A r \in Started :
    IF mpc[r] = "done"
      THEN /\ disk[stamp[r]].log = <<logs[r]>>
           /\ Cardinality(LogWrites(r)) = 1
      ELSE disk[stamp[r]].log = <<>>

\* C15: a start that succeeds after an earlier run has finished gets a run
\* directory different from that run's, whatever the wall-clock times of the
\* two starts, and leaves the macro, meta.json and log.txt of the earlier
\* run as they were.
FreshRunDirectory ==
  [][\A r \in Req :
       (spc[r] = "body" /\ spc'[r] = "spawn")
         => \A q \in Req :
              mpc[q] = "done"
                => /\ stamp'[r] # stamp[q]
                   /\ disk'[stamp[q]] = disk[stamp[q]]]_vars

\* C16: a monitor whose read of the output raised keeps the lines read so
\* far and, once its process has exited, performs the whole finalization:
\* meta.json rewritten with a terminal status, log.txt written, slot cleared.
ReadFailureFinalized ==
  \A r \in readErr :
    mpc[r] = "done"
      => \E i \in DOMAIN finHist :
           /\ finHist[i].mon = r
           /\ finHist[i].log
           /\ Len(disk[stamp[r]].log) = 1

\* The part of C16 that holds in every behaviour: the failure itself changes
\* no log and no slot, and the monitor still ends once the process has.
ReadFailureKeepsLines ==
  [][\A r \in Req : (r \notin readErr /\ r \in readErr')
       => UNCHANGED <<logs, proc, info, meta, disk>>]_vars

ReadFailureMonitorEnds ==
  \A r \in Req : (r \in readErr /\ pst[r] = "exited") ~> (mpc[r] = "done")

StatusAnswer ==
  [][statusResp' # <<>> =>
       /\ UNCHANGED <<clock, startVars, proc, info, logs, procVars, monVars,
                      disk, subVars, finHist, readErr>>
       /\ LET a == statusResp'[1]
          IN IF proc = NoRun
               THEN a = [running |-> FALSE]
               ELSE LET n == Len(logs[info])
                        k == IF n < TailLimit THEN n ELSE TailLimit
                    IN /\ a.running
                       /\ a.runDir = stamp[info]
                       /\ a.meta = meta[info]
                       /\ a.logLength = n
                       /\ a.logTail = [i \in 1..k |-> logs[info][n - k + i]]
    ]_vars

StatusTailTruncated ==
  /\ statusResp # <<>>
  /\ statusResp[1].running
  /\ statusResp[1].logLength = TailLimit + 1
  /\ Len(statusResp[1].logTail) = TailLimit
  /\ statusResp[1].logTail[1] = logs[info][2]

\* ------------------------------------------------------------ mesh claims
MeshReturned ==
  ret # <<>> /\ call.fn \in {"box_mesh", "cylinder_mesh", "sphere_mesh"}

\* C17: for all extents >= 0 and all ring resolutions >= 1, every index in
\* the triangle tables of a box, cylinder or sphere mesh is at least 0 and
\* less than the number of vertices of that mesh.
MeshIndexBounds ==
  MeshReturned =>
    LET m == ret[1]
        n == Cardinality(DOMAIN m.verts)
    IN /\ Len(m.i) = Len(m.j) /\ Len(m.j) = Len(m.k)
       /\ DOMAIN m.verts = 0..(n - 1)
       /\ \A t \in 1..Len(m.i) :
            /\ 0 <= m.i[t] /\ m.i[t] < n
            /\ 0 <= m.j[t] /\ m.j[t] < n
            /\ 0 <= m.k[t] /\ m.k[t] < n

\* A sphere of one band and one meridian: its last triangle reaches the
\* last vertex.
SmallestSphereReturned ==
  /\ MeshReturned
  /\ call.fn = "sphere_mesh" /\ call.n_lat = 1 /\ call.n_lon = 1
  /\ Cardinality(DOMAIN ret[1].verts) = 2
  /\ ret[1].k[Len(ret[1].k)] = 1

\* C18: a box mesh has the 8 corners (+-dx, +-dy, +-dz) and 12 triangles;
\* every triangle has its three corners on one face of the box, every one of
\* the 6 faces has exactly two distinct triangles, and the two together use
\* all four corners of the face.
Corners(m, t) == {m.i[t], m.j[t], m.k[t]}
\* The corners on the face of the box where coordinate a is s times the extent
BoxFace(m, a, s) ==
  {c \in DOMAIN m.verts : m.verts[c][a] = s * <<call.dx, call.dy, call.dz>>[a]}
BoxFaces == {<<a, s>> : a \in 1..3, s \in {-1, 1}}
OnFace(m, f) ==
  {Corners(m, t) : t \in {u \in 1..Len(m.i) :
                            Corners(m, u) \subseteq BoxFace(m, f[1], f[2])}}

BoxTwoTrianglesPerFace ==
  (MeshReturned /\ call.fn = "box_mesh"
     /\ call.dx > 0 /\ call.dy > 0 /\ call.dz > 0) =>
    LET m == ret[1]
    IN /\ DOMAIN m.verts = 0..7
       /\ {m.verts[c] : c \in 0..7}
            = {<<sx * call.dx, sy * call.dy, sz * call.dz>> :
                 sx \in {-1, 1}, sy \in {-1, 1}, sz \in {-1, 1}}
       /\ Len(m.i) = 12 /\ Len(m.j) = 12 /\ Len(m.k) = 12
       /\ \A t \in 1..12 :
            \E f \in BoxFaces : Corners(m, t) \subseteq BoxFace(m, f[1], f[2])
       /\ \A f \in BoxFaces :
            /\ Cardinality({t \in 1..12 :
                   Corners(m, t) \subseteq BoxFace(m, f[1], f[2])}) = 2
            /\ Cardinality(OnFace(m, f)) = 2
            /\ UNION OnFace(m, f) = BoxFace(m, f[1], f[2])

\* The parts of C18 that hold: corners, triangle count, every triangle on
\* one face, every face touched.
BoxTrianglesOnFaces ==
  (MeshReturned /\ call.fn = "box_mesh"
     /\ call.dx > 0 /\ call.dy > 0 /\ call.dz > 0) =>
    LET m == ret[1]
    IN /\ Cardinality({m.verts[c] : c \in 0..7}) = 8
       /\ Len(m.i) = 12
       /\ \A t \in 1..12 :
            \E f \in BoxFaces : Corners(m, t) \subseteq BoxFace(m, f[1], f[2])
       /\ \A f \in BoxFaces : OnFace(m, f) # {}

\* ----------------------------------------------------------- scene claims
SceneBuilt == ret # <<>> /\ call.fn = "add_geometry_traces"
SceneVolumes == Get(call.geom, "volumes", <<>>)
Emitting(vol) ==
  /\ Get(vol, "visible", TRUE) # FALSE
  /\ Get(vol, "type", "") \in {"box", "cylinder", "sphere"}

\* The (volume, placement) pairs of the volumes from n on that are to be
\* drawn, in description order.
RECURSIVE PairsFrom(_)
PairsFrom(n) ==
  IF n > Len(SceneVolumes)
    THEN <<>>
    ELSE (IF Emitting(SceneVolumes[n])
            THEN [q \in 1..Len(Get(SceneVolumes[n], "placements", <<>>)) |->
                    <<n, q>>]
            ELSE <<>>) \o PairsFrom(n + 1)

\* Trace t is the surface of placement pr[2] of volume pr[1]: the mesh of
\* the volume's shape, moved to the placement.
SurfaceOf(t, pr) ==
  LET vol == SceneVolumes[pr[1]]
      pl == vol["placements"][pr[2]]
      sh == <<Get(pl, "x", 0), Get(pl, "y", 0), Get(pl, "z", 0)>>
  IN /\ Len(t.i) = (IF vol["type"] = "box" THEN 12
                    ELSE IF vol["type"] = "cylinder" THEN 4 * DefaultSeg
                    ELSE 2 * DefaultLat * DefaultLon)
     \* corner 6 of the box of Dimensions is (1, 1, 2); the quarter turn
     \* about z of Pl takes it to (-1, 1, 2)
     /\ IF vol["type"] = "box"
          THEN t.verts[6] = <<(IF "rotation" \in DOMAIN pl THEN -1 ELSE 1)
                                + sh[1], 1 + sh[2], 2 + sh[3]>>
          ELSE t.verts[0].shift = sh

\* C19: the builder emits exactly one surface for every (volume, placement)
\* pair whose volume is not explicitly invisible and has type box, cylinder
\* or sphere, no surface for anything else, and the surfaces in the order of
\* the description (volumes, then placements).
SurfacePerPlacement ==
  SceneBuilt =>
    LET ps == PairsFrom(1)
        ts == ret[1].traces
    IN /\ Len(ts) = Len(ps)
       /\ \A n \in 1..Len(ps) : SurfaceOf(ts[n], ps[n])

\* C19 holds for every description whose build returns.
SurfacePerPlacementIfReturned ==
  (SceneBuilt /\ ~ret[1].raised) =>
    LET ps == PairsFrom(1)
        ts == ret[1].traces
    IN /\ Len(ts) = Len(ps)
       /\ \A n \in 1..Len(ps) : SurfaceOf(ts[n], ps[n])

\* C20: a malformed description (shape type missing or unknown, material
\* reference missing, material colour missing or malformed) never aborts the
\* build: add_geometry_traces returns without raising.
BuildNeverRaises == SceneBuilt => ~ret[1].raised

\* ---------------------------------------------------------- colour claims
SceneMaterials == Get(call.geom, "materials", NoKeys)
\* The emitted traces belong, in order, to the first drawable pairs.
TraceVolume(n) == SceneVolumes[PairsFrom(1)[n][1]]
NoMaterialColour(vol) ==
  \/ Get(vol, "material", "") \notin DOMAIN SceneMaterials
  \/ "color" \notin DOMAIN SceneMaterials[vol["material"]]
MaterialColour(vol) == SceneMaterials[vol["material"]]["color"]
WellFormed(color) ==
  /\ color.kind = "list"
  /\ Len(color.items) >= 3
  /\ \A c \in 1..3 : color.items[c].num
Gray(level, alpha) ==
  [raised |-> FALSE, r |-> level, g |-> level, b |-> level, a |-> Num(alpha)]

\* C21: the surfaces of a volume whose material name is not in the materials
\* map, or whose material has no colour, or whose colour is malformed, have
\* the colour gray (150,150,150) with alpha 0.25.
FallbackGrayEverywhere ==
  SceneBuilt =>
    \A n \in 1..Len(ret[1].traces) :
      (NoMaterialColour(TraceVolume(n))
         \/ ~WellFormed(MaterialColour(TraceVolume(n))))
        => ret[1].traces[n].color = Gray(150, 250)

\* C21 as the code has it: without a material or without a colour entry the
\* surfaces get the default colour (0.6, 0.6, 0.6) = (153,153,153) with the
\* overlay alpha 0.15; with a colour that is null, empty or shorter than three
\* entries they get (150,150,150) with alpha 0.25.
DefaultAndFallbackColour ==
  SceneBuilt =>
    \A n \in 1..Len(ret[1].traces) :
      LET vol == TraceVolume(n)
      IN IF NoMaterialColour(vol)
           THEN ret[1].traces[n].color = Gray(153, 150)
         ELSE Len(MaterialColour(vol).items) < 3
                => ret[1].traces[n].color = Gray(150, 250)

BothGraysDrawn ==
  /\ SceneBuilt
  /\ Len(ret[1].traces) = 2
  /\ NoMaterialColour(TraceVolume(1))
  /\ ret[1].traces[1].color = Gray(153, 150)
  /\ ~NoMaterialColour(TraceVolume(2))
  /\ MaterialColour(TraceVolume(2)) = List(<<Num(1000), Num(0)>>)
  /\ ret[1].traces[2].color = Gray(150, 250)

\* ------------------------------------------------------- placement claims
\* The placement of the one volume of a description of InitPlace
ThePlacement == SceneVolumes[1]["placements"][1]
TheRotation ==
  LET rot == Get(ThePlacement, "rotation", NoKeys)
  IN <<Get(rot, "x", 0), Get(rot, "y", 0), Get(rot, "z", 0)>>
TheShift == <<ThePlacement["x"], ThePlacement["y"], ThePlacement["z"]>>
LocalBox == box_mesh(1, 2, 3)
Plus(u, v) == <<u[1] + v[1], u[2] + v[2], u[3] + v[3]>>
Identity == <<<<1, 0, 0>>, <<0, 1, 0>>, <<0, 0, 1>>>>
BoxPlaced == SceneBuilt /\ Len(ret[1].traces) = 1

\* C22: placing a mesh with rotation (0,0,0) and shift t gives the original
\* vertices, each shifted by t, in the same number and order and with the
\* same triangle tables; this is what the identity matrix followed by the
\* shift gives.
ZeroRotationIsShift ==
  (SceneBuilt /\ TheRotation = <<0, 0, 0>>) =>
    /\ Len(ret[1].traces) = 1
    /\ LET t == ret[1].traces[1]
       IN /\ DOMAIN t.verts = DOMAIN LocalBox.verts
          /\ \A c \in DOMAIN t.verts :
               /\ t.verts[c] = Plus(LocalBox.verts[c], TheShift)
               /\ t.verts[c] = Plus(MatVec(Identity, LocalBox.verts[c]),
                                    TheShift)
          /\ t.i = LocalBox.i /\ t.j = LocalBox.j /\ t.k = LocalBox.k
    /\ rotation_matrix(0, 0, 0) = Identity

UnrotatedBoxShifted ==
  /\ BoxPlaced
  /\ "rotation" \in DOMAIN ThePlacement
  /\ TheRotation = <<0, 0, 0>>
  /\ TheShift = <<1, -1, 1>>
  /\ ret[1].traces[1].verts[6] = <<2, 1, 4>>

\* Quarter turns of a point about one axis
AboutX(v, a) == <<v[1], Cos90(a) * v[2] - Sin90(a) * v[3],
                  Sin90(a) * v[2] + Cos90(a) * v[3]>>
AboutY(v, a) == <<Cos90(a) * v[1] + Sin90(a) * v[3], v[2],
                  Cos90(a) * v[3] - Sin90(a) * v[1]>>
AboutZ(v, a) == <<Cos90(a) * v[1] - Sin90(a) * v[2],
                  Sin90(a) * v[1] + Cos90(a) * v[2], v[3]>>

\* C23: for angles that are whole quarter turns the placement turns a vertex
\* about x first, then about y, then about z (the matrix Rz Ry Rx), and
\* shifts it afterwards; rotation (0,0,90) takes (1,0,0) to (0,1,0) and
\* rotation (90,0,90) takes (0,1,0) to (0,0,1).
RotationXThenYThenZ ==
  BoxPlaced =>
    /\ \A c \in DOMAIN LocalBox.verts :
         ret[1].traces[1].verts[c]
           = Plus(AboutZ(AboutY(AboutX(LocalBox.verts[c], TheRotation[1]),
                                TheRotation[2]), TheRotation[3]), TheShift)
    /\ MatVec(rotation_matrix(0, 0, 90), <<1, 0, 0>>) = <<0, 1, 0>>
    /\ MatVec(rotation_matrix(90, 0, 90), <<0, 1, 0>>) = <<0, 0, 1>>

TurnedBoxShifted ==
  /\ BoxPlaced
  /\ TheRotation = <<90, 0, 90>>
  /\ TheShift = <<1, 0, -1>>
  /\ ret[1].traces[1].verts[6] = <<4, 1, 1>>

\* C24: a placement leaves the local mesh of its volume as it was: the
\* surface of placement n is the local mesh turned and shifted by placement
\* n alone, whatever the other placements are, and every surface of the
\* volume has the triangle tables of the local mesh.
PlacementsIndependent ==
  SceneBuilt =>
    \A n \in 1..Len(ret[1].traces) :
      LET pr == PairsFrom(1)[n]
          vol == SceneVolumes[pr[1]]
          pl == vol["placements"][pr[2]]
          local == VolumeMesh(vol["type"], Get(vol, "dimensions", NoKeys))
          t == ret[1].traces[n]
      IN /\ t.verts = [c \in DOMAIN local.verts |->
                         Placed(vol["type"], local.verts[c], RotationOf(pl),
                                ShiftOf(pl))]
         /\ t.i = local.i /\ t.j = local.j /\ t.k = local.k

\* A box placed twice: shifted, then turned about z and shifted.
BoxPlacedTwice ==
  /\ SceneBuilt
  /\ Len(SceneVolumes) = 1
  /\ Len(ret[1].traces) = 2
  /\ SceneVolumes[1]["type"] = "box"
  /\ ret[1].traces[1].verts[6] = <<2, 1, 2>>
  /\ ret[1].traces[2].verts[6] = <<-1, 3, 2>>

\* ------------------------------------------------- mesh structure claims
CylinderReturned == MeshReturned /\ call.fn = "cylinder_mesh"

\* The cap triangles of a cylinder mesh of n segments that have ring vertex c
\* as a corner: those of the bottom cap hold the bottom centre 2n, those of
\* the top cap the top centre 2n+1.
CapTriangles(m, centre, c) ==
  {t \in 1..Len(m.i) : centre \in Corners(m, t) /\ c \in Corners(m, t)}

\* The vertices and the four triangles per segment of a cylinder mesh
CylinderLayout ==
  LET m == ret[1]
      n == call.n_seg
      ringVertex(c, z) == [r |-> call.radius, k |-> c, n |-> n, z |-> z]
      centreVertex(z) == [r |-> 0, k |-> 0, n |-> 1, z |-> z]
  IN /\ DOMAIN m.verts = 0..(2 * n + 1)
     /\ \A c \in 0..(n - 1) :
          /\ m.verts[c] = ringVertex(c, -call.half_h)
          /\ m.verts[c + n] = ringVertex(c, call.half_h)
     /\ m.verts[2 * n] = centreVertex(-call.half_h)
     /\ m.verts[2 * n + 1] = centreVertex(call.half_h)
     /\ Len(m.i) = 4 * n /\ Len(m.j) = 4 * n /\ Len(m.k) = 4 * n
     /\ \A seg \in 0..(n - 1) :
          LET next == (seg + 1) % n
              ring == {seg, next, seg + n, next + n}
          IN /\ Corners(m, 4 * seg + 1) \subseteq ring
             /\ Corners(m, 4 * seg + 2) \subseteq ring
             /\ Corners(m, 4 * seg + 3) = {2 * n, seg, next}
             /\ Corners(m, 4 * seg + 4) = {2 * n + 1, seg + n, next + n}

\* C25: for every n >= 1 a cylinder mesh of n segments has 2n+2 vertices
\* (bottom ring, top ring, bottom centre, top centre) and 4n triangles, per
\* segment two side triangles on the ring vertices of the segment, one
\* bottom-cap and one top-cap triangle; every ring vertex is a corner of
\* exactly two cap triangles of its own cap.
CylinderStructure ==
  CylinderReturned =>
    /\ CylinderLayout
    /\ \A c \in 0..(call.n_seg - 1) :
         /\ Cardinality(CapTriangles(ret[1], 2 * call.n_seg, c)) = 2
         /\ Cardinality(CapTriangles(ret[1], 2 * call.n_seg + 1,
                                      c + call.n_seg)) = 2

\* C25 as the code has it: the same, but a ring vertex is a corner of two
\* cap triangles of its cap only from two segments on; with one segment each
\* cap is a single triangle that names the one ring vertex twice.
CylinderStructureFromTwo ==
  CylinderReturned =>
    /\ CylinderLayout
    /\ \A c \in 0..(call.n_seg - 1) :
         LET caps == IF call.n_seg = 1 THEN 1 ELSE 2
         IN /\ Cardinality(CapTriangles(ret[1], 2 * call.n_seg, c)) = caps
            /\ Cardinality(CapTriangles(ret[1], 2 * call.n_seg + 1,
                                         c + call.n_seg)) = caps

DefaultCylinderReturned ==
  /\ CylinderReturned
  /\ call.n_seg = DefaultSeg
  /\ Cardinality(DOMAIN ret[1].verts) = 50
  /\ Len(ret[1].i) = 96
  /\ Corners(ret[1], 96) = {49, 47, 24}

SphereReturned == MeshReturned /\ call.fn = "sphere_mesh"

\* C26: for all a >= 1 latitude bands and b >= 1 meridians a sphere mesh
\* has (a+1)*b vertices, every row of b separate vertices (the pole rows
\* too), and 2*a*b triangles: for each quad (lat, lon), with nlon = (lon+1)
\* mod b, two triangles that together use exactly the vertices lat*b+lon,
\* lat*b+nlon, (lat+1)*b+lon, (lat+1)*b+nlon and share the diagonal from
\* lat*b+nlon to (lat+1)*b+lon.
SphereStructure ==
  SphereReturned =>
    LET m == ret[1]
        a == call.n_lat
        b == call.n_lon
    IN /\ DOMAIN m.verts = 0..((a + 1) * b - 1)
       /\ \A lat \in 0..a, lon \in 0..(b - 1) :
            m.verts[lat * b + lon] = [r |-> call.radius, lat |-> lat,
                                      n_lat |-> a, lon |-> lon, n_lon |-> b]
       /\ Len(m.i) = 2 * a * b /\ Len(m.j) = 2 * a * b
       /\ Len(m.k) = 2 * a * b
       /\ \A lat \in 0..(a - 1), lon \in 0..(b - 1) :
            LET nlon == (lon + 1) % b
                q == lat * b + lon
                first == Corners(m, 2 * q + 1)
                second == Corners(m, 2 * q + 2)
            IN /\ first \cup second
                    = {lat * b + lon, lat * b + nlon, (lat + 1) * b + lon,
                       (lat + 1) * b + nlon}
               /\ {lat * b + nlon, (lat + 1) * b + lon} \subseteq first
               /\ {lat * b + nlon, (lat + 1) * b + lon} \subseteq second

DefaultSphereReturned ==
  /\ SphereReturned
  /\ call.n_lat = DefaultLat /\ call.n_lon = DefaultLon
  /\ Cardinality(DOMAIN ret[1].verts) = 312
  /\ Len(ret[1].i) = 576
  /\ Corners(ret[1], 576) = {264, 288, 311}

\* ------------------------------------------------------------ slot claims
\* C27: in every reachable state the process handle and the session info of
\* the slot are both absent or both present (and then of the same run), so
\* get_status(), which tests the handle, agrees with the monitors and the
\* subscribers, which test the info, on whether a run is active.
SlotConsistent ==
  /\ (proc = NoRun) <=> (info = NoRun)
  /\ proc = info
  /\ GetStatus.running <=> (info # NoRun)

SlotReinstalled ==
  \E r \in Req : /\ mpc[r] = "done"
                 /\ proc # NoRun /\ proc # r
                 /\ info = proc
                 /\ pst[proc] = "alive"

\* C28: whenever a subscriber updates its cursor (run_api.py:110), the new
\* cursor equals the number of lines of that session's log that were actually
\* sent to the subscriber; a line appended while the subscriber was suspended
\* in a send is not counted.
CursorUpdated(s) == sub[s].pc = "send" /\ sub'[s].pc = "poll"

CursorCountsSent ==
  [][\A s \in Sub :
       CursorUpdated(s)
         => /\ delivered' = delivered
            /\ sub'[s].sent = Cardinality(Received(s, sub[s].ref))]_vars

\* The parts of C29, one by one.  The slot goes from a session to absent only
\* in the finalization of the monitor of the process the slot holds.
ClearedByOwnMonitor ==
  [][(proc # NoRun /\ proc' = NoRun)
       => (mpc[proc] = "wait" /\ mpc'[proc] = "done")]_vars

\* Whenever get_status() would report not running, no process is alive.
IdleMeansNoneAlive == ~GetStatus.running => Alive = {}

\* C29: the slot is set to absent only by the monitor of the process the slot
\* holds (so a session installed by a later start is never cleared by the
\* monitor of an earlier process), and whenever get_status() reports not
\* running no process launched by the supervisor is alive.
MonitorClearsOwnSession ==
  [][/\ (proc # NoRun /\ proc' = NoRun)
          => (mpc[proc] = "wait" /\ mpc'[proc] = "done")
     /\ ~GetStatus'.running => Alive' = {}]_vars

\* C30: a start that fails after the conflict check (int(n_events) raises, or
\* the spawn raises) leaves the slot absent and leaves in storage no meta.json
\* of that attempt with status "running".
StartFailed(r) == spc[r] = "body" /\ spc'[r] \in {"badparam", "spawnfail"}

RunningRecordOf(r) ==
  \E i \in DOMAIN disk[stamp[r]].meta :
    /\ disk[stamp[r]].meta[i].run = r
    /\ disk[stamp[r]].meta[i].status = Running

FailedStartLeavesNoTrace ==
  [][\A r \in Req :
       StartFailed(r)
         => (proc' = NoRun /\ info' = NoRun /\ ~RunningRecordOf(r)')]_vars

\* The part of C30 about the slot, for a failure with no other start under
\* way: the slot is absent after the failure.
FailedStartLeavesSlot ==
  [][\A r \in Req :
       (StartFailed(r) /\ \A q \in Req : q # r => spc[q] \notin {"body", "spawn"})
         => (proc' = proc /\ info' = info)]_vars

\* C31: all log lines a subscriber has received belong to one run, and the
\* lines it has received of a run start with that run's first line: the
\* cursor of an earlier run is never applied to the log of a later one.
OneStreamOneRun ==
  \A s \in Sub :
    /\ \A i, j \in Lines(s) : delivered[s][i].sess = delivered[s][j].sess
    /\ \A r \in Req : Received(s, r) # {} => 1 \in Received(s, r)

\* The monitor task of run r has ended, normally or by an exception.
MonitorEnded(r) == mpc[r] \in {"done", "failed"}

\* C32: once the process of the session in the slot has exited the slot is
\* eventually cleared, so that a later start is accepted, also when a write
\* of the finalization fails.  As a safety property: the slot never holds a
\* session whose process has exited and whose monitor task has ended, since
\* no other code clears the slot.
NoStuckRunning ==
  \A r \in Req : (pst[r] = "exited" /\ MonitorEnded(r)) => proc # r

\* C32 as stated, for behaviours in which every ready task is scheduled.
ExitLeadsToIdle ==
  \A r \in Req : (proc = r /\ pst[r] = "exited") ~> (proc # r)

====
